---- MODULE Spec2Model ----
(***************************************************************************)
(* Model of app_iguatemi.py: the Streamlit contracts assistant.            *)
(*                                                                         *)
(* Python values are modelled as records so that values of different       *)
(* Python types can be compared:                                           *)
(*   str   -> PyStr(s)      int -> PyInt(n)      None -> None              *)
(*   list  -> PyList(seq)   dict -> a function whose DOMAIN is its keys    *)
(* Text that the program inspects character by character (the question)    *)
(* is a sequence of one-character strings; text that it only builds and    *)
(* passes on (JSON documents, prompt contents) is a TLA+ string.           *)
(***************************************************************************)
EXTENDS Integers, Sequences, FiniteSets, TLC

VARIABLES
    directory,        \* the *.json files of the contracts directory, in glob order
    db,               \* contents of the persistent chroma collection "contracts"
    session_state,    \* st.session_state: a dict with keys among collection, metadata
    loadLog,          \* outcome of every load_documents call of this session
    query,            \* st.text_input value of the last script run
    handler,          \* the query handler the last script run called, if any
    errors,           \* st.error messages of the last script run
    queries,          \* collection.query calls of the last script run
    results,          \* results of the last script run (None when not produced)
    metadata_summary, \* metadata_summary of the last script run (None when not produced)
    synth,            \* messages of every chat.completions.create call of the last run
    shown,            \* what the last script run wrote below the input box
    content,          \* the ContractRecord handed to extract_metadata
    extracted         \* what extract_metadata returned for it

vars == <<directory, db, session_state, loadLog, query, handler, errors, queries,
          results, metadata_summary, synth, shown, content, extracted>>

----------------------------------------------------------------------------
(* Bounds of the model *)

MaxFiles == 2

MaxWords == 1

MaxLoads == 2

----------------------------------------------------------------------------
(* Python values *)

None == [py_none |-> TRUE]

EmptyDict == [k \in {} |-> k]

PyStr(s) == [kind |-> "str", s |-> s, n |-> 0]

PyInt(n) == [kind |-> "int", s |-> "", n |-> n]

PyList(items) == [py_list |-> items]

IsNone(v) == "py_none" \in DOMAIN v

\* bool(v) for a str or an int
Truthy(v) == IF v.kind = "str" THEN v.s # "" ELSE v.n # 0

\* dict.get(k, default)
Get(d, k, default) == IF k \in DOMAIN d THEN d[k] ELSE default

\* the exception marker: what a call evaluates to when it raises
Raised == [py_raised |-> TRUE]

IsRaised(v) == "py_raised" \in DOMAIN v

----------------------------------------------------------------------------
(* extract_metadata *)

\* content.get('contratos', [{}])[0] if content.get('contratos') else {}
FirstContractNoGuard(c) ==
    IF "contratos" \in DOMAIN c /\ ~IsNone(c.contratos)
    THEN (IF Len(c.contratos.py_list) > 0 THEN c.contratos.py_list[1] ELSE Raised)
    ELSE EmptyDict

FirstContract(c) ==
    LET contratos == Get(c, "contratos", None) IN
    IF ~IsNone(contratos) /\ Len(contratos.py_list) > 0
    THEN Get(c, "contratos", PyList(<<EmptyDict>>)).py_list[1]
    ELSE EmptyDict

\* d.get(k, {}) where d may itself be the result of a failed step; calling
\* .get on None raises AttributeError
SubRecord(d, k) ==
    IF IsRaised(d) \/ IsNone(d) THEN Raised ELSE Get(d, k, EmptyDict)

\* d.get(k, '') on a sub-record
Leaf(d, k) == Get(d, k, PyStr(""))

extract_metadata(c) ==
    LET loja     == Get(c, "loja", EmptyDict)
        contrato == FirstContract(c)
        objeto   == SubRecord(contrato, "objeto")
        vigencia == SubRecord(contrato, "vigencia")
    IN  IF \/ IsNone(loja) \/ IsNone(contrato) \/ IsRaised(contrato)
           \/ IsNone(objeto) \/ IsRaised(objeto)
           \/ IsNone(vigencia) \/ IsRaised(vigencia)
        THEN Raised
        ELSE [store_name      |-> Leaf(loja, "nome_fantasia"),
              cnpj            |-> Leaf(loja, "cnpj"),
              contract_number |-> Leaf(contrato, "numero_contrato"),
              store_area      |-> Leaf(objeto, "area_privativa"),
              contract_start  |-> Leaf(vigencia, "data_inicial"),
              contract_end    |-> Leaf(vigencia, "data_final"),
              floor           |-> Leaf(objeto, "piso"),
              store_number    |-> Leaf(objeto, "loja")]

MetadataFields == {"store_name", "cnpj", "contract_number", "store_area",
                   "contract_start", "contract_end", "floor", "store_number"}

----------------------------------------------------------------------------
(* ContractRecords: every shape of absent / null / present sub-records *)

\* the dicts over a subset of the keys of leaves
SubDicts(leaves) == {[k \in D |-> leaves[k]] : D \in SUBSET (DOMAIN leaves)}

\* a key that is absent, or present with one of the values
OptField(k, values) == {EmptyDict} \cup {k :> v : v \in values}

LojaLeaves == [nome_fantasia |-> PyStr("A"), cnpj |-> PyStr("11.111/0001-11")]

ObjetoLeaves == [area_privativa |-> PyInt(120), piso |-> PyStr("L1"), loja |-> PyStr("17")]

VigenciaLeaves == [data_inicial |-> PyStr("2021-01-01"), data_final |-> PyStr("2026-01-01")]

ContratoShapes ==
    {None} \cup
    {n @@ o @@ v : n \in OptField("numero_contrato", {PyStr("C-1")}),
                   o \in OptField("objeto", {None} \cup SubDicts(ObjetoLeaves)),
                   v \in OptField("vigencia", {None} \cup SubDicts(VigenciaLeaves))}

\* a second contract of the list, which extract_metadata must ignore
OtherContract ==
    [numero_contrato |-> PyStr("C-2"),
     objeto   |-> [area_privativa |-> PyInt(55), piso |-> PyStr("L2"), loja |-> PyStr("3")],
     vigencia |-> [data_inicial |-> PyStr("2019-05-01"), data_final |-> PyStr("2024-05-01")]]

ContratosShapes ==
    {None, PyList(<<>>)}
    \cup {PyList(<<c>>) : c \in ContratoShapes}
    \cup {PyList(<<c, OtherContract>>) : c \in ContratoShapes}

AllRecords ==
    {l @@ cs : l  \in OptField("loja", {None} \cup SubDicts(LojaLeaves)),
               cs \in OptField("contratos", ContratosShapes)}

----------------------------------------------------------------------------
(* Text: str.lower(), the `in' substring test, and the questions *)

\* str.lower() on one character
LowerTable ==
    [A |-> "a", B |-> "b", C |-> "c", D |-> "d", E |-> "e", F |-> "f", G |-> "g",
     H |-> "h", I |-> "i", J |-> "j", K |-> "k", L |-> "l", M |-> "m", N |-> "n",
     O |-> "o", P |-> "p", Q |-> "q", R |-> "r", S |-> "s", T |-> "t", U |-> "u",
     V |-> "v", W |-> "w", X |-> "x", Y |-> "y", Z |-> "z"]
    @@ ("Á" :> "á") @@ ("Ã" :> "ã") @@ ("Ç" :> "ç") @@ ("É" :> "é")

UpperCaseLetters == DOMAIN LowerTable

\* str.lower()
Lower(s) ==
    [i \in 1..Len(s) |-> IF s[i] \in UpperCaseLetters THEN LowerTable[s[i]] ELSE s[i]]

\* k in s
Contains(s, k) ==
    \E i \in 0..(Len(s) - Len(k)) : \A j \in 1..Len(k) : s[i + j] = k[j]

\* the text of a sequence of characters
RECURSIVE StrFrom(_, _)
StrFrom(s, i) == IF i > Len(s) THEN "" ELSE s[i] \o StrFrom(s, i + 1)

Str(s) == StrFrom(s, 1)

K_todos == <<"t", "o", "d", "o", "s">>
K_todas == <<"t", "o", "d", "a", "s">>
K_quantos == <<"q", "u", "a", "n", "t", "o", "s">>
K_quantas == <<"q", "u", "a", "n", "t", "a", "s">>
K_total == <<"t", "o", "t", "a", "l">>
K_geral == <<"g", "e", "r", "a", "l">>
K_shopping == <<"s", "h", "o", "p", "p", "i", "n", "g">>
K_contratos == <<"c", "o", "n", "t", "r", "a", "t", "o", "s">>
K_venc == <<"v", "e", "n", "c">>
K_area_acc == <<"á", "r", "e", "a">>
K_area == <<"a", "r", "e", "a">>

GlobalKeywordsNoGeral ==
    <<K_todos, K_todas, K_quantos, K_quantas, K_total, K_shopping, K_contratos>>

GlobalKeywords ==
    <<K_todos, K_todas, K_quantos, K_quantas, K_total, K_geral, K_shopping, K_contratos>>

\* the phrases questions are made of: "TODOS", "contratos Venc", "Área total", "AREA Geral", "Shopping venc area", "Vencimento área"
Vocabulary ==
    << <<"T", "O", "D", "O", "S">>,
     <<"c", "o", "n", "t", "r", "a", "t", "o", "s", " ", "V", "e", "n", "c">>,
     <<"Á", "r", "e", "a", " ", "t", "o", "t", "a", "l">>,
     <<"A", "R", "E", "A", " ", "G", "e", "r", "a", "l">>,
     <<"S", "h", "o", "p", "p", "i", "n", "g", " ", "v", "e", "n", "c", " ", "a", "r", "e", "a">>,
     <<"V", "e", "n", "c", "i", "m", "e", "n", "t", "o", " ", "á", "r", "e", "a">> >>

\* the phrases at a set of positions of the vocabulary, concatenated in the
\* order of the vocabulary
RECURSIVE Concat(_)
Concat(positions) ==
    IF positions = {} THEN <<>>
    ELSE LET first == CHOOSE p \in positions : \A r \in positions : p <= r
         IN  Vocabulary[first] \o Concat(positions \ {first})

\* the questions: at most MaxWords phrases each
Questions ==
    {Concat(ps) : ps \in {S \in SUBSET (1..Len(Vocabulary)) : Cardinality(S) <= MaxWords}}

\* the text of each question, computed once
QuestionText == [q \in Questions |-> Str(q)]


----------------------------------------------------------------------------
(* json.dumps(..., ensure_ascii=False) *)

RECURSIVE Join(_, _)
Join(items, sep) ==
    IF Len(items) = 0 THEN ""
    ELSE IF Len(items) = 1 THEN items[1]
    ELSE items[1] \o sep \o Join(Tail(items), sep)

Quoted(s) == "\"" \o s \o "\""

DumpsValue(v) == IF v.kind = "str" THEN Quoted(v.s) ELSE ToString(v.n)

\* a dict, given the order of its keys and the dumped value of each key
DumpsDict(d, order, dumped) ==
    LET present == SelectSeq(order, LAMBDA k : k \in DOMAIN d)
    IN  "{" \o Join([i \in 1..Len(present) |->
                        Quoted(present[i]) \o ": " \o dumped[present[i]]],
                    ", ") \o "}"

DumpsLeafDict(d, order) ==
    IF IsNone(d) THEN "null"
    ELSE DumpsDict(d, order, [k \in DOMAIN d |-> DumpsValue(d[k])])

DumpsContrato(c) ==
    IF IsNone(c) THEN "null"
    ELSE DumpsDict(c, <<"numero_contrato", "objeto", "vigencia">>,
                   [k \in DOMAIN c |->
                       IF k = "objeto"
                       THEN DumpsLeafDict(c[k], <<"area_privativa", "piso", "loja">>)
                       ELSE IF k = "vigencia"
                       THEN DumpsLeafDict(c[k], <<"data_inicial", "data_final">>)
                       ELSE DumpsValue(c[k])])

DumpsContratos(cs) ==
    IF IsNone(cs) THEN "null"
    ELSE "[" \o Join([i \in 1..Len(cs.py_list) |-> DumpsContrato(cs.py_list[i])], ", ") \o "]"

\* json.dumps(content, ensure_ascii=False); the keys keep the order of the file
DumpsContent(c) ==
    DumpsDict(c, <<"loja", "contratos">>,
              [k \in DOMAIN c |->
                  IF k = "loja" THEN DumpsLeafDict(c[k], <<"nome_fantasia", "cnpj">>)
                  ELSE DumpsContratos(c[k])])

\* json.dumps of the list of a relevant_data dict
DumpsPairs(pairs, k1, k2) ==
    "[" \o Join([i \in 1..Len(pairs) |->
                    "{" \o Quoted(k1) \o ": " \o DumpsValue(pairs[i][k1]) \o ", "
                        \o Quoted(k2) \o ": " \o DumpsValue(pairs[i][k2]) \o "}"],
                ", ") \o "]"

\* json.dumps(metadata_summary, ensure_ascii=False)
DumpsSummary(summary) ==
    IF "contracts" \in DOMAIN summary
    THEN "{" \o Quoted("contracts") \o ": "
             \o DumpsPairs(summary.contracts, "store", "end_date") \o "}"
    ELSE "{" \o Quoted("stores") \o ": "
             \o DumpsPairs(summary.stores, "store", "area") \o "}"


----------------------------------------------------------------------------
(* The chroma collection *)

Min(a, b) == IF a < b THEN a ELSE b

\* the orders in which the index may rank its n documents
Rankings(n) ==
    {r \in [1..n -> 1..n] : \A i, j \in 1..n : r[i] = r[j] => i = j}

\* collection.query(query_texts=[text], n_results=n): the n_results nearest
\* documents in the order of the ranking, one result list per query text
CollectionQuery(coll, text, n, ranking) ==
    LET k == Min(n, Len(coll)) IN
    [documents |-> << [i \in 1..k |-> coll[ranking[i]].document] >>,
     metadatas |-> << [i \in 1..k |-> coll[ranking[i]].metadata] >>]

\* collection.delete(where={"store_name": {"$exists": True}})
CollectionDelete(coll) ==
    SelectSeq(coll, LAMBDA d : "store_name" \notin DOMAIN d.metadata)

----------------------------------------------------------------------------
(* load_documents *)

\* the handle get_or_create_collection(name="contracts") returns; the documents
\* it gives access to are those of db
ContractsCollection == [name |-> "contracts"]

\* a file json.load cannot read
MalformedFile == [py_malformed |-> TRUE]

\* json.load(file)
JsonLoad(file) == IF "py_malformed" \in DOMAIN file THEN Raised ELSE file

\* the places where a collaborator of load_documents may raise
Faults == {"none", "init", "delete", "add"}

LoadFailedKeepsIndex(coll, msg) ==
    [collection |-> ContractsCollection,
     metadata |-> PyList([i \in 1..Len(coll) |-> coll[i].metadata]), db |-> coll,
     errors |-> <<"Error loading documents: " \o msg>>]

LoadFailed(coll, msg) ==
    [collection |-> None, metadata |-> None, db |-> coll,
     errors |-> <<"Error loading documents: " \o msg>>]

\* load_documents(directory_path), given the files of the directory, the
\* stored collection, the collaborator that raises (if any) and, for a
\* raising collection.add, how many documents it had stored
load_documents(files, coll, fault, partial) ==
    LET loaded    == [i \in 1..Len(files) |-> JsonLoad(files[i])]
        metadatas == [i \in 1..Len(files) |->
                         IF IsRaised(loaded[i]) THEN Raised
                         ELSE extract_metadata(loaded[i])]
        documents == [i \in 1..Len(files) |->
                         [id       |-> "doc_" \o ToString(i - 1),
                          document |-> DumpsContent(loaded[i]),
                          metadata |-> metadatas[i]]]
        cleared   == IF Len(coll) > 0 THEN CollectionDelete(coll) ELSE coll
    IN  IF fault = "init" THEN LoadFailed(coll, "init")
        ELSE IF Len(coll) > 0 /\ fault = "delete" THEN LoadFailed(coll, "delete")
        ELSE IF \E i \in 1..Len(files) : IsRaised(metadatas[i])
        THEN LET bad == CHOOSE i \in 1..Len(files) :
                            /\ IsRaised(metadatas[i])
                            /\ \A j \in 1..(i - 1) : ~IsRaised(metadatas[j])
             IN  LoadFailed(cleared, IF IsRaised(loaded[bad]) THEN "JSONDecodeError"
                                     ELSE "AttributeError")
        ELSE IF Len(files) > 0 /\ fault = "add"
        THEN LoadFailed(cleared \o SubSeq(documents, 1, partial), "add")
        ELSE [collection |-> ContractsCollection,
              metadata   |-> PyList(metadatas),
              db         |-> IF Len(files) > 0 THEN cleared \o documents ELSE cleared,
              errors     |-> <<>>]

----------------------------------------------------------------------------
(* The query handlers *)

GeneralNResults == 100

StoreNResults == 1

\* [f(m) for m in metadata_list if keep(m)]
ExpirationPair(m) == [store |-> m.store_name, end_date |-> m.contract_end]

AreaPair(m) == [store |-> m.store_name, area |-> m.store_area]

ExpirationContractsUnfiltered(metadata_list) ==
    [i \in 1..Len(metadata_list) |-> ExpirationPair(metadata_list[i])]

\* [{...} for m in metadata_list if m["contract_end"]]
ExpirationContracts(metadata_list) ==
    LET kept == SelectSeq(metadata_list, LAMBDA m : Truthy(m.contract_end))
    IN  [i \in 1..Len(kept) |-> ExpirationPair(kept[i])]

\* [{...} for m in metadata_list if m["store_area"]]
AreaStores(metadata_list) ==
    LET kept == SelectSeq(metadata_list, LAMBDA m : Truthy(m.store_area))
    IN  [i \in 1..Len(kept) |-> AreaPair(kept[i])]

\* the branch of handle_global_query a query takes
GlobalBranchAreaFirst(q) ==
    LET lowered == Lower(q) IN
    IF Contains(lowered, K_area_acc) \/ Contains(lowered, K_area) THEN "area"
    ELSE IF Contains(lowered, K_venc) THEN "expiration"
    ELSE "general"

GlobalBranch(q) ==
    LET lowered == Lower(q) IN
    IF Contains(lowered, K_venc) THEN "expiration"
    ELSE IF Contains(lowered, K_area_acc) \/ Contains(lowered, K_area) THEN "area"
    ELSE "general"

\* the branch each question takes, computed once
QuestionBranch == [q \in Questions |-> GlobalBranch(q)]

\* handle_global_query(query, metadata_list, collection): the pair it
\* returns and the collection.query calls it made
handle_global_query(q, metadata_list, coll, ranking) ==
    LET branch == QuestionBranch[q] IN
    CASE branch = "expiration" ->
           [results |-> None,
            summary |-> [contracts |-> ExpirationContracts(metadata_list)],
            calls   |-> <<>>]
      [] branch = "area" ->
           [results |-> None,
            summary |-> [stores |-> AreaStores(metadata_list)],
            calls   |-> <<>>]
      [] OTHER ->
           [results |-> CollectionQuery(coll, q, GeneralNResults, ranking),
            summary |-> None,
            calls   |-> <<[query_texts |-> <<q>>, n_results |-> GeneralNResults]>>]

handle_store_query_wide(q, coll, ranking) ==
    [results |-> CollectionQuery(coll, q, GeneralNResults, ranking),
     summary |-> None,
     calls   |-> <<[query_texts |-> <<q>>, n_results |-> GeneralNResults]>>]

\* handle_store_query(query, collection)
handle_store_query(q, coll, ranking) ==
    [results |-> CollectionQuery(coll, q, StoreNResults, ranking),
     summary |-> None,
     calls   |-> <<[query_texts |-> <<q>>, n_results |-> StoreNResults]>>]

----------------------------------------------------------------------------
(* get_chat_response *)

SYSTEM_PROMPT == "Você é um assistente especializado em contratos do Shopping Center Iguatemi."

\* bool(d) for a dict or None
DictTruthy(d) == ~IsNone(d) /\ DOMAIN d # {}

SystemMessagesWithHistory ==
    IF synth = <<>> THEN <<[role |-> "system", content |-> SYSTEM_PROMPT]>> ELSE synth[1]

\* the messages list as first built
SystemMessages == <<[role |-> "system", content |-> SYSTEM_PROMPT]>>

UserMessage(q, context, summary) ==
    IF DictTruthy(summary)
    THEN [role |-> "user",
          content |-> "Metadata summary: " \o DumpsSummary(summary)
                        \o "\n\nQuestion: " \o QuestionText[q]]
    ELSE [role |-> "user",
          content |-> "Context: " \o context \o "\n\nQuestion: " \o QuestionText[q]]

\* what the completions endpoint may do with a request
Outcomes == {"ok", "fail"}

\* get_chat_response(query, context, metadata_summary): the response, the
\* messages of the request it sent, and what it reported with st.error
get_chat_response(q, context, summary, outcome) ==
    LET messages == Append(SystemMessages, UserMessage(q, context, summary))
    IN  IF outcome = "ok"
        THEN [response |-> PyStr("resposta"), sent |-> <<messages>>, errors |-> <<>>]
        ELSE [response |-> None, sent |-> <<messages>>,
              errors |-> <<"Error getting chat response: api">>]


----------------------------------------------------------------------------
(* The contracts directory *)

Contract(name, areas, ends) ==
    [loja |-> [nome_fantasia |-> PyStr(name), cnpj |-> PyStr("11.111/0001-11")],
     contratos |-> PyList(<<[numero_contrato |-> PyStr("C-" \o name),
                             objeto   |-> areas @@ [piso |-> PyStr("L1")],
                             vigencia |-> ends]>>)]

StoreA == Contract("A", [area_privativa |-> PyStr("")], [data_final |-> PyStr("2026-01-01")])

StoreB == Contract("B", [area_privativa |-> PyStr("120")], [data_final |-> PyStr("")])

StoreC == Contract("C", [area_privativa |-> PyInt(0)], [data_final |-> PyStr("2027-06-30")])

Files == {StoreA, StoreB, StoreC, MalformedFile}

RECURSIVE Directories(_)
Directories(n) ==
    IF n = 0 THEN {<<>>}
    ELSE Directories(n - 1) \cup {Append(d, f) : d \in Directories(n - 1), f \in Files}

\* what an earlier process may have left in ./chroma_db
StaleDocument ==
    [id |-> "doc_0",
     document |-> DumpsContent(Contract("Z", [area_privativa |-> PyInt(40)],
                                        [data_final |-> PyStr("2020-12-31")])),
     metadata |-> extract_metadata(Contract("Z", [area_privativa |-> PyInt(40)],
                                            [data_final |-> PyStr("2020-12-31")]))]

----------------------------------------------------------------------------
(* main: one run of the script *)

\* bool(v) for a list or None
ListTruthy(v) == ~IsNone(v) /\ Len(v.py_list) > 0

\* 'collection' not in st.session_state or 'metadata' not in st.session_state
NeedsLoad(ss) == "collection" \notin DOMAIN ss \/ "metadata" \notin DOMAIN ss

\* any(keyword in query.lower() for keyword in [...])
is_global_query_no_geral(q) ==
    LET lowered == Lower(q) IN
    \E i \in 1..Len(GlobalKeywordsNoGeral) : Contains(lowered, GlobalKeywordsNoGeral[i])

is_global_query(q) ==
    LET lowered == Lower(q) IN
    \E i \in 1..Len(GlobalKeywords) : Contains(lowered, GlobalKeywords[i])

\* whether each question is a global one, computed once
QuestionIsGlobal == [q \in Questions |-> is_global_query(q)]

\* the session state after the initialisation block of main
StoreLoaded(ss, loaded) ==
    IF ~IsNone(loaded.collection) /\ ListTruthy(loaded.metadata)
    THEN [collection |-> loaded.collection, metadata |-> loaded.metadata]
    ELSE ss

\* the lines written once a response is there
Display(response, res, summary) ==
    IF IsNone(response) \/ ~Truthy(response) THEN <<>>
    ELSE <<"Resposta: " \o response.s>> \o
         (IF ~IsNone(res)
          THEN [i \in 1..Len(res.documents[1]) |->
                   [loja     |-> res.metadatas[1][i].store_name,
                    contrato |-> res.metadatas[1][i].contract_number]]
          ELSE IF DictTruthy(summary)
          THEN <<"Pergunta respondida usando metadados de todos os contratos">>
          ELSE <<>>)

\* the part of main under `if query and st.session_state.get('collection')'
Answer(q, ss, coll, ranking, outcome) ==
    LET global  == QuestionIsGlobal[q]
        handled == IF global
                   THEN handle_global_query(q, ss.metadata.py_list, coll, ranking)
                   ELSE handle_store_query(q, coll, ranking)
        context == IF global
                   THEN Join(handled.results.documents[1], "\n\n")
                   ELSE handled.results.documents[1][1]
        chat    == IF global /\ DictTruthy(handled.summary)
                   THEN get_chat_response(q, "", handled.summary, outcome)
                   ELSE get_chat_response(q, context, None, outcome)
    IN  [handler |-> IF global THEN "handle_global_query" ELSE "handle_store_query",
         calls   |-> handled.calls,
         results |-> handled.results,
         summary |-> handled.summary,
         sent    |-> chat.sent,
         errors  |-> chat.errors,
         shown   |-> Display(chat.response, handled.results, handled.summary)]

\* a run in which the question is not processed
NoAnswer ==
    [handler |-> "none", calls |-> <<>>, results |-> None, summary |-> None,
     sent |-> <<>>, errors |-> <<>>, shown |-> <<>>]

\* what the initialisation block has in hand when it does not call load_documents
NotLoaded(coll) == [collection |-> None, metadata |-> None, db |-> coll, errors |-> <<>>]

\* main(), given the text of the input box, what load_documents returns if
\* it is called, the ranking of the index and what the completions endpoint does
main(q, loaded, ranking, outcome) ==
    LET needs == NeedsLoad(session_state) IN
    \E ss \in {IF needs THEN StoreLoaded(session_state, loaded) ELSE session_state} :
    \E answer \in {IF Len(q) > 0 /\ "collection" \in DOMAIN ss
                   THEN Answer(q, ss, loaded.db, ranking, outcome)
                   ELSE NoAnswer} :
        /\ needs => Len(loadLog) < MaxLoads
        /\ session_state' = ss
        /\ db' = loaded.db
        /\ loadLog' = IF needs
                      THEN Append(loadLog, IF IsNone(loaded.collection) THEN "failed" ELSE "loaded")
                      ELSE loadLog
        /\ query' = q
        /\ handler' = answer.handler
        /\ queries' = answer.calls
        /\ results' = answer.results
        /\ metadata_summary' = answer.summary
        /\ synth' = answer.sent
        /\ errors' = loaded.errors \o answer.errors
        /\ shown' = answer.shown
        /\ UNCHANGED <<directory, content, extracted>>

\* the browser session ends and a new one starts: st.session_state is new,
\* ./chroma_db is what the last session left
new_session ==
    /\ loadLog # <<>>
    /\ session_state' = EmptyDict
    /\ loadLog' = <<>>
    /\ query' = <<>>
    /\ handler' = "none"
    /\ errors' = <<>>
    /\ queries' = <<>>
    /\ results' = None
    /\ metadata_summary' = None
    /\ synth' = <<>>
    /\ shown' = <<>>
    /\ UNCHANGED <<directory, db, content, extracted>>

Init ==
    /\ directory \in Directories(MaxFiles)
    /\ db \in {<<>>, <<StaleDocument>>}
    /\ session_state = EmptyDict
    /\ loadLog = <<>>
    /\ query = <<>>
    /\ handler = "none"
    /\ errors = <<>>
    /\ queries = <<>>
    /\ results = None
    /\ metadata_summary = None
    /\ synth = <<>>
    /\ shown = <<>>
    /\ content = EmptyDict
    /\ extracted = None

\* what load_documents may return in the next run
LoadResults ==
    IF NeedsLoad(session_state)
    THEN {load_documents(directory, db, fault, partial) :
             fault \in Faults, partial \in 0..Len(directory)}
    ELSE {NotLoaded(db)}

Identity(n) == [i \in 1..n |-> i]

\* a script run. The inputs the run does not look at are fixed: without an
\* index in the session it looks only at whether the input box is empty,
\* without a semantic query it does not ask the index for a ranking, and
\* without a question to process it does not call the completions endpoint
Run ==
    \E loaded \in LoadResults :
      LET indexed == \/ ~NeedsLoad(session_state)
                     \/ (~IsNone(loaded.collection) /\ ListTruthy(loaded.metadata))
      IN  \E q \in (IF indexed THEN Questions ELSE {<<>>, Vocabulary[1]}) :
            LET process == indexed /\ Len(q) > 0
                asks    == process /\ (QuestionIsGlobal[q] => QuestionBranch[q] = "general")
            IN  \E ranking \in (IF asks THEN Rankings(Len(loaded.db))
                                ELSE {Identity(Len(loaded.db))}),
                   outcome \in (IF process THEN Outcomes ELSE {"ok"}) :
                  main(q, loaded, ranking, outcome)

Next == Run \/ new_session

Spec == Init /\ [][Next]_vars

----------------------------------------------------------------------------
(* The specification of extract_metadata alone: one record in, one result out *)

Idle == /\ directory = <<>>
        /\ db = <<>>
        /\ session_state = EmptyDict
        /\ loadLog = <<>>
        /\ query = <<>>
        /\ handler = "none"
        /\ errors = <<>>
        /\ queries = <<>>
        /\ results = None
        /\ metadata_summary = None
        /\ synth = <<>>
        /\ shown = <<>>

InitExtract == /\ Idle
               /\ content \in AllRecords
               /\ extracted = None

Extract == /\ IsNone(extracted)
           /\ extracted' = extract_metadata(content)
           /\ UNCHANGED <<directory, db, session_state, loadLog, query, handler, errors,
                          queries, results, metadata_summary, synth, shown, content>>

NextExtract == Extract

SpecExtract == InitExtract /\ [][NextExtract]_vars

\* no sub-record of the record is null: every path is absent or well-formed
NoNullPath(c) ==
    /\ ~IsNone(Get(c, "loja", EmptyDict))
    /\ LET cs == Get(c, "contratos", PyList(<<>>)) IN
       IsNone(cs) \/ cs.py_list = <<>> \/
         LET k == cs.py_list[1] IN
           /\ ~IsNone(k)
           /\ ~IsNone(Get(k, "objeto", EmptyDict))
           /\ ~IsNone(Get(k, "vigencia", EmptyDict))

\* the value at a path of keys / list positions, or "absent"
Absent == [py_absent |-> TRUE]

HasContract(c) ==
    /\ "contratos" \in DOMAIN c
    /\ ~IsNone(c.contratos)
    /\ c.contratos.py_list # <<>>

AtLoja(c, k) ==
    IF "loja" \in DOMAIN c /\ k \in DOMAIN c.loja THEN c.loja[k] ELSE Absent

AtContrato(c, k) ==
    IF HasContract(c) /\ k \in DOMAIN c.contratos.py_list[1]
    THEN c.contratos.py_list[1][k] ELSE Absent

AtContratoSub(c, sub, k) ==
    IF HasContract(c) /\ sub \in DOMAIN c.contratos.py_list[1]
       /\ k \in DOMAIN c.contratos.py_list[1][sub]
    THEN c.contratos.py_list[1][sub][k] ELSE Absent

SourceOf(c) ==
    [store_name      |-> AtLoja(c, "nome_fantasia"),
     cnpj            |-> AtLoja(c, "cnpj"),
     contract_number |-> AtContrato(c, "numero_contrato"),
     store_area      |-> AtContratoSub(c, "objeto", "area_privativa"),
     contract_start  |-> AtContratoSub(c, "vigencia", "data_inicial"),
     contract_end    |-> AtContratoSub(c, "vigencia", "data_final"),
     floor           |-> AtContratoSub(c, "objeto", "piso"),
     store_number    |-> AtContratoSub(c, "objeto", "loja")]

\* C10: for every record whose paths are each absent or well-formed,
\* extract_metadata does not raise and returns all eight fields, a field
\* being "" when its source path is absent and the source value otherwise.
C10_ExtractTotal ==
    (~IsNone(extracted) /\ NoNullPath(content)) =>
        /\ ~IsRaised(extracted)
        /\ DOMAIN extracted = MetadataFields
        /\ \A f \in MetadataFields :
              extracted[f] = (IF SourceOf(content)[f] = Absent
                              THEN PyStr("") ELSE SourceOf(content)[f])

\* a record with no store and an empty contract list has been extracted
C10_Witness ==
    /\ ~IsNone(extracted)
    /\ "loja" \notin DOMAIN content
    /\ "contratos" \in DOMAIN content
    /\ ~IsNone(content.contratos)
    /\ content.contratos.py_list = <<>>

----------------------------------------------------------------------------
(* Properties of the script runs *)

\* the last script run processed its question
Answered == handler # "none"

Last(seq) == seq[Len(seq)]

\* the MetadataCollection of the session
SessionMetadata == session_state.metadata.py_list

\* str.upper() on the characters of the model's questions
UpperTable ==
    [a |-> "A", b |-> "B", c |-> "C", d |-> "D", e |-> "E", f |-> "F", g |-> "G",
     h |-> "H", i |-> "I", j |-> "J", k |-> "K", l |-> "L", m |-> "M", n |-> "N",
     o |-> "O", p |-> "P", q |-> "Q", r |-> "R", s |-> "S", t |-> "T", u |-> "U",
     v |-> "V", w |-> "W", x |-> "X", y |-> "Y", z |-> "Z"]
    @@ ("á" :> "Á")

LowerCaseLetters == DOMAIN UpperTable

Upper(s) ==
    [i \in 1..Len(s) |-> IF s[i] \in LowerCaseLetters THEN UpperTable[s[i]] ELSE s[i]]

\* the question with the case of every letter swapped
SwapCase(s) ==
    [i \in 1..Len(s) |-> IF s[i] \in LowerCaseLetters THEN UpperTable[s[i]]
                         ELSE IF s[i] \in UpperCaseLetters THEN LowerTable[s[i]]
                         ELSE s[i]]

\* the lower-cased question contains a portfolio keyword
HasGlobalKeyword(q) ==
    \E kw \in {K_todos, K_todas, K_quantos, K_quantas,
               K_total, K_geral, K_shopping, K_contratos} : Contains(Lower(q), kw)

HasVenc(q) == Contains(Lower(q), K_venc)

HasArea(q) == Contains(Lower(q), K_area_acc) \/ Contains(Lower(q), K_area)

\* the sub-route the last run took, read off what handle_global_query returned
SubRoutes ==
    {r \in {"EXPIRATION", "AREA", "GENERAL"} :
        \/ r = "EXPIRATION" /\ ~IsNone(metadata_summary) /\ "contracts" \in DOMAIN metadata_summary
        \/ r = "AREA" /\ ~IsNone(metadata_summary) /\ "stores" \in DOMAIN metadata_summary
        \/ r = "GENERAL" /\ ~IsNone(results)}

\* out is the subsequence of image at the positions of kept, in order
IsOrderedSelection(out, image, kept) ==
    /\ Len(out) = Cardinality(kept)
    /\ \E pos \in [1..Len(out) -> kept] :
          /\ \A i, j \in 1..Len(out) : i < j => pos[i] < pos[j]
          /\ \A i \in 1..Len(out) : out[i] = image[pos[i]]

\* the content of the user turn for a structured summary / a document context
SummaryTurn(summary, q) ==
    "Metadata summary: " \o DumpsSummary(summary) \o "\n\nQuestion: " \o Str(q)

ContextTurn(documents, q) ==
    "Context: " \o Join(documents, "\n\n") \o "\n\nQuestion: " \o Str(q)

\* C1: after a successful ingestion of a directory with no contract file, a
\* non-empty question is processed: the synthesizer is called exactly once,
\* with an empty DocumentContext.
C1_EmptyCorpusAnswered ==
    (/\ directory = <<>>
     /\ loadLog # <<>>
     /\ Last(loadLog) = "loaded"
     /\ Len(query) > 0)
    => /\ Len(synth) = 1
       /\ synth[1][2].content = ContextTurn(<<>>, query)

\* C2: load_documents is called at most once in a session.
C2_LoadedAtMostOnce == Len(loadLog) <= 1

\* C3: a processed question goes to handle_global_query if and only if its
\* lower-cased text contains one of the eight portfolio keywords, and to
\* handle_store_query otherwise, whatever stems it contains; the question in
\* upper case, in lower case or with swapped case is routed the same way.
C3_PrimaryRouting ==
    Answered =>
        /\ (handler = "handle_global_query") <=> HasGlobalKeyword(query)
        /\ (handler = "handle_store_query") <=> ~HasGlobalKeyword(query)
        /\ \A variant \in {Upper(query), Lower(query), SwapCase(query)} :
              is_global_query(variant) <=> (handler = "handle_global_query")

\* a question with both stems and no portfolio keyword went to handle_store_query
C3_Witness ==
    /\ handler = "handle_store_query"
    /\ HasVenc(query)
    /\ HasArea(query)

\* C4: a GLOBAL question gets exactly one sub-route: EXPIRATION if it contains
\* "venc", otherwise AREA if it contains "área" or "area", otherwise GENERAL.
C4_SecondaryRouting ==
    (handler = "handle_global_query") =>
        SubRoutes = {IF HasVenc(query) THEN "EXPIRATION"
                     ELSE IF HasArea(query) THEN "AREA"
                     ELSE "GENERAL"}

\* a GLOBAL question with both stems was routed EXPIRATION
C4_Witness ==
    /\ handler = "handle_global_query"
    /\ HasVenc(query)
    /\ HasArea(query)
    /\ SubRoutes = {"EXPIRATION"}

\* C5: the EXPIRATION summary holds, in the order of the MetadataCollection,
\* exactly the {store, end_date} pairs of the entries with a non-blank
\* contract_end, and it is the payload of the request sent to the synthesizer.
C5_ExpirationSummary ==
    (handler = "handle_global_query" /\ HasVenc(query)) =>
        /\ DOMAIN metadata_summary = {"contracts"}
        /\ IsOrderedSelection(
              metadata_summary.contracts,
              [i \in 1..Len(SessionMetadata) |->
                  [store    |-> SessionMetadata[i].store_name,
                   end_date |-> SessionMetadata[i].contract_end]],
              {i \in 1..Len(SessionMetadata) : SessionMetadata[i].contract_end # PyStr("")})
        /\ Len(synth) = 1
        /\ synth[1][2].content = SummaryTurn(metadata_summary, query)

\* an EXPIRATION run over two entries, the first with a blank contract_end
C5_Witness ==
    /\ handler = "handle_global_query"
    /\ HasVenc(query)
    /\ Len(SessionMetadata) = 2
    /\ SessionMetadata[1].contract_end = PyStr("")
    /\ Len(metadata_summary.contracts) = 1

\* C6: the AREA summary holds, in the order of the MetadataCollection, exactly
\* the {store, area} pairs of the entries whose store_area is not the empty
\* string; a numeric store_area, zero included, is not blank.
C6_AreaSummary ==
    (handler = "handle_global_query" /\ ~HasVenc(query) /\ HasArea(query)) =>
        /\ DOMAIN metadata_summary = {"stores"}
        /\ IsOrderedSelection(
              metadata_summary.stores,
              [i \in 1..Len(SessionMetadata) |->
                  [store |-> SessionMetadata[i].store_name,
                   area  |-> SessionMetadata[i].store_area]],
              {i \in 1..Len(SessionMetadata) : SessionMetadata[i].store_area # PyStr("")})

\* C7: a STORE_SPECIFIC question makes exactly one semantic query, for 1
\* match; a GLOBAL/GENERAL question exactly one, for at most 100 matches; a
\* GLOBAL/EXPIRATION or GLOBAL/AREA question none; a run that processes no
\* question none; and exactly one of results and summary is produced.
C7_IndexQueries ==
    /\ ~Answered => queries = <<>>
    /\ Answered =>
        /\ IsNone(results) # IsNone(metadata_summary)
        /\ IF ~HasGlobalKeyword(query)
           THEN /\ queries = <<[query_texts |-> <<query>>, n_results |-> 1]>>
                /\ ~IsNone(results)
           ELSE IF ~HasVenc(query) /\ ~HasArea(query)
           THEN /\ Len(queries) = 1
                /\ queries[1].query_texts = <<query>>
                /\ queries[1].n_results <= 100
                /\ ~IsNone(results)
           ELSE /\ queries = <<>>
                /\ ~IsNone(metadata_summary)

\* a STORE_SPECIFIC question over an index of two documents made its one query
C7_Witness ==
    /\ handler = "handle_store_query"
    /\ Len(db) = 2
    /\ Len(queries) = 1
    /\ Len(results.documents[1]) = 1

\* C8: every request to the synthesizer is the system instruction followed by
\* one user turn, whose content is the serialized summary and the question
\* on the EXPIRATION and AREA routes, and the text of the retrieved documents
\* and the question otherwise: nothing of an earlier run is in it.
C8_StatelessPrompt ==
    /\ Len(synth) = (IF Answered THEN 1 ELSE 0)
    /\ Answered =>
        /\ Len(synth[1]) = 2
        /\ synth[1][1] = [role |-> "system", content |-> SYSTEM_PROMPT]
        /\ synth[1][2].role = "user"
        /\ synth[1][2].content =
              (IF HasGlobalKeyword(query) /\ (HasVenc(query) \/ HasArea(query))
               THEN SummaryTurn(metadata_summary, query)
               ELSE ContextTurn(results.documents[1], query))

\* a GLOBAL/GENERAL question was answered from the two documents retrieved
C8_Witness ==
    /\ handler = "handle_global_query"
    /\ ~IsNone(results)
    /\ Len(results.documents[1]) = 2
    /\ Len(synth) = 1

\* the index load_documents builds for the files of the directory
FullIndex ==
    [i \in 1..Len(directory) |->
        [id       |-> "doc_" \o ToString(i - 1),
         document |-> DumpsContent(directory[i]),
         metadata |-> extract_metadata(directory[i])]]

LoadErrors ==
    {<<"Error loading documents: " \o e>> :
        e \in {"init", "delete", "JSONDecodeError", "AttributeError", "add"}}

\* C9: a failed ingestion is reported and leaves the session with neither
\* collection nor metadata, so the run answers no question; and whenever the
\* session has a collection, it holds the records of the whole directory.
C9_FailedIngestion ==
    /\ (loadLog # <<>> /\ Last(loadLog) = "failed") =>
          /\ errors \in LoadErrors
          /\ DOMAIN session_state = {}
          /\ ~Answered
          /\ queries = <<>>
          /\ synth = <<>>
    /\ "collection" \in DOMAIN session_state =>
          /\ "metadata" \in DOMAIN session_state
          /\ db = FullIndex
          /\ SessionMetadata = [i \in 1..Len(directory) |-> FullIndex[i].metadata]

\* collection.add raised after storing some of the documents
C9_Witness ==
    /\ loadLog # <<>>
    /\ Last(loadLog) = "failed"
    /\ Len(db) > 0
    /\ Len(db) < Len(directory)
    /\ db = SubSeq(FullIndex, 1, Len(db))

====
